---- MODULE Spec2Model ----
(***************************************************************************)
(* The rule "forbid-log-strings/check" of eslint-plugin-forbid-log-strings *)
(* (lib/rules/forbid-log-strings.js) as a state machine.                   *)
(*                                                                         *)
(* create(context) closes over the configuration list; the host then calls *)
(* the two handlers it returns, Program and CallExpression, in any order.  *)
(* JavaScript strings are sequences of one-character strings, so that the  *)
(* regular expressions, the join and the template strings are computed     *)
(* character by character.  An object is a function whose domain is the    *)
(* set of the properties it has: an absent property is absent from DOMAIN. *)
(*                                                                         *)
(* Scope of the regular expressions: a source is a sequence of literal     *)
(* characters and \b assertions; the flags i and y are interpreted.        *)
(***************************************************************************)
EXTENDS Naturals, Sequences, FiniteSets, TLC

VARIABLES
    configurations,     \* const configurations = context.options[0] || []
    event,              \* the handler that ran last: "create", "Program", "CallExpression"
    node,               \* the call expression visited last (NoNode before the first visit)
    reports,            \* the context.report calls of the handler that ran last, in order
    messageArguments,   \* the local messageArguments of the visit that ran last
    evaluated,          \* the matchesPattern calls of the visit that ran last, in order
    prior               \* the reports of the most recent CallExpression visit

vars == <<configurations, event, node, reports, messageArguments, evaluated, prior>>

(***************************************************************************)
(* Bounds of the model.                                                    *)
(***************************************************************************)
MaxConfigs == 2
MaxPatterns == 3
MaxArgs == 2

(***************************************************************************)
(* Strings.                                                                *)
(***************************************************************************)
Has(obj, key) == key \in DOMAIN obj

\* Array.prototype.join: the elements with the separator between neighbours.
RECURSIVE Join(_, _)
Join(strs, sep) ==
    IF strs = <<>> THEN <<>>
    ELSE IF Len(strs) = 1 THEN strs[1]
    ELSE strs[1] \o sep \o Join(Tail(strs), sep)

Range(s) == {s[k] : k \in DOMAIN s}

SubSeqFrom(s, k) == SubSeq(s, k, Len(s))

Digits == <<"0", "1", "2", "3", "4", "5", "6", "7", "8", "9">>

\* The decimal string of a number: the key of an array index.
RECURSIVE NumberToString(_)
NumberToString(n) ==
    IF n < 10 THEN <<Digits[n + 1]>>
    ELSE NumberToString(n \div 10) \o <<Digits[(n % 10) + 1]>>

UpperCase == {"D", "E", "B", "U", "G", "I", "N"}

ToLowerCase(c) ==
    CASE c = "D" -> "d" [] c = "E" -> "e" [] c = "B" -> "b" [] c = "U" -> "u"
      [] c = "G" -> "g" [] c = "I" -> "i" [] c = "N" -> "n" [] OTHER -> c

LowerCase == {"a", "b", "c", "d", "e", "g", "i", "n", "r", "t", "u"}

\* \w of a regular expression
IsWordChar(c) == c \in LowerCase \cup UpperCase \cup Range(Digits) \cup {"_"}

(***************************************************************************)
(* RegExp: new RegExp(source, flags) and RegExp.prototype.test.            *)
(***************************************************************************)
Boundary == "\\b"

\* The atoms of a source: \b is an assertion, any other character is itself.
RECURSIVE Atoms(_)
Atoms(source) ==
    IF source = <<>> THEN <<>>
    ELSE IF Len(source) >= 2 /\ source[1] = "\\" /\ source[2] = "b"
         THEN <<Boundary>> \o Atoms(SubSeqFrom(source, 3))
         ELSE <<source[1]>> \o Atoms(Tail(source))

NewRegExp(source, flags) == [source |-> source, flags |-> flags]

\* \b holds after pos characters iff exactly one neighbour is a word character.
AtBoundary(string, pos) ==
    LET before == pos >= 1 /\ IsWordChar(string[pos])
        after  == pos < Len(string) /\ IsWordChar(string[pos + 1])
    IN  before # after

SameChar(a, b, ignoreCase) ==
    IF ignoreCase THEN ToLowerCase(a) = ToLowerCase(b) ELSE a = b

\* The atoms from k on match the string after pos characters.
RECURSIVE MatchAt(_, _, _, _, _)
MatchAt(atoms, k, string, pos, ignoreCase) ==
    IF k > Len(atoms) THEN TRUE
    ELSE IF atoms[k] = Boundary
         THEN AtBoundary(string, pos) /\ MatchAt(atoms, k + 1, string, pos, ignoreCase)
         ELSE /\ pos < Len(string)
              /\ SameChar(atoms[k], string[pos + 1], ignoreCase)
              /\ MatchAt(atoms, k + 1, string, pos + 1, ignoreCase)

\* regex.test(string) of a regular expression just built (lastIndex 0).
RegExpTest(regex, string) ==
    LET atoms      == Atoms(regex.source)
        ignoreCase == "i" \in Range(regex.flags)
        starts     == IF "y" \in Range(regex.flags) THEN {0} ELSE 0..Len(string)
    IN  \E pos \in starts : MatchAt(atoms, 1, string, pos, ignoreCase)

(***************************************************************************)
(* getMatch, isRegex, parsePattern.                                        *)
(***************************************************************************)
FlagChars == {"g", "i", "m", "u", "y", "d", "s", "v"}

NoMatch == [matched |-> FALSE]

\* pattern.match(/^\/(.*)\/([gimuydsv]*)$/): the greedy (.*) ends at the last
\* slash, and every character after that slash has to be a flag.
getMatch(pattern) ==
    LET slashes == {k \in DOMAIN pattern : pattern[k] = "/"}
        last    == CHOOSE k \in slashes : \A j \in slashes : j <= k
    IN  IF /\ Len(pattern) >= 2
           /\ pattern[1] = "/"
           /\ last >= 2
           /\ \A k \in (last + 1)..Len(pattern) : pattern[k] \in FlagChars
        THEN [matched |-> TRUE,
              body    |-> SubSeq(pattern, 2, last - 1),
              flags   |-> SubSeqFrom(pattern, last + 1)]
        ELSE NoMatch

isRegex(pattern) == getMatch(pattern).matched

parsePattern(pattern) ==
    LET match == getMatch(pattern)
    IN  IF match.matched
        THEN NewRegExp(match.body, match.flags)
        ELSE NewRegExp(<<"\\", "b">> \o pattern \o <<"\\", "b">>, <<"i">>)

(***************************************************************************)
(* Syntax tree nodes and configuration objects.                            *)
(***************************************************************************)
StringLiteral(chars) == [type |-> "Literal", typeofValue |-> "string", value |-> chars]
NumberLiteral(chars) == [type |-> "Literal", typeofValue |-> "number", value |-> chars]
Identifier(name)     == [type |-> "Identifier", name |-> name]

MemberCall(object, method, arguments) ==
    [type      |-> "CallExpression",
     callee    |-> [type     |-> "MemberExpression",
                    object   |-> Identifier(object),
                    property |-> Identifier(method)],
     arguments |-> arguments]

PlainCall(name, arguments) ==
    [type |-> "CallExpression", callee |-> Identifier(name), arguments |-> arguments]

NoNode == [type |-> "none"]

Lists(S, max) == UNION {[1..k -> S] : k \in 0..max}

\* Every object of objs, alone and with each of the optional parts.
Optional(objs, parts) == objs \cup {obj @@ part : obj \in objs, part \in parts}

DebugRegex == <<"/", "d", "e", "b", "u", "g", "/", "i">>
BugRegex   == <<"/", "b", "u", "g", "/">>
DebugWord  == <<"d", "e", "b", "u", "g">>
TraceWord  == <<"t", "r", "a", "c", "e">>
DebugUpper == <<"D", "E", "B", "U", "G">>

\* Configurations that differ in scope (logger, level) and in validity.
ScopeConfigs ==
    {config @@ scope :
        config \in Optional({[forbiddenPatterns |-> p] :
                                p \in {<<DebugRegex>>, <<DebugWord, TraceWord>>}},
                            {[logic |-> "OR"]}),
        scope \in {[excludeLevels |-> <<"error">>],
                   [excludeLevels |-> <<"error">>, customLoggers |-> <<"cheese">>],
                   [customLoggers |-> <<"console", "foo">>]}}
    \cup Optional({[forbiddenPatterns |-> p] :
                      p \in {<<DebugRegex>>, <<DebugWord, TraceWord>>}},
                  {[logic |-> "OR"]})

ScopeNodes ==
    {MemberCall(object, method, <<StringLiteral(DebugWord)>>) :
        object \in {"console", "cheese", "Math"}, method \in {"log", "error"}}
    \cup {MemberCall(object, "log", <<Identifier("variable")>>) :
            object \in {"console", "cheese"}}
    \cup {PlainCall("print", <<StringLiteral(DebugWord)>>)}

\* Configurations that differ in patterns and logic; calls that differ in arguments.
PatternLists ==
    {p \in {<<>>, <<DebugRegex>>, <<DebugWord>>, <<BugRegex>>,
            <<DebugRegex, DebugWord>>, <<DebugRegex, BugRegex>>,
            <<DebugWord, BugRegex>>, <<DebugRegex, DebugWord, BugRegex>>} :
        Len(p) <= MaxPatterns}

MatchConfigs ==
    Optional({[forbiddenPatterns |-> p] : p \in PatternLists},
             {[logic |-> l] : l \in {"OR", "AND", "XOR"}})

ArgumentPool ==
    {StringLiteral(DebugWord), StringLiteral(DebugUpper),
     NumberLiteral(<<"4", "2">>), Identifier("variable")}

MatchNodes ==
    {MemberCall("console", "log", arguments) : arguments \in Lists(ArgumentPool, MaxArgs)}

(***************************************************************************)
(* validateConfig and the Program handler.                                 *)
(***************************************************************************)
\* !logic: the property is absent (the schema admits only "OR", "AND", "XOR").
Falsy(obj, key) == ~Has(obj, key)

ConfigError(messageId, index) ==
    [messageId |-> messageId, loc |-> [line |-> 1, column |-> index + 1]]

\* validateConfig with length >= 1 in place of length > 1.
validateConfigFromOne(config, index) ==
    IF Len(config.forbiddenPatterns) >= 1 /\ Falsy(config, "logic")
    THEN <<ConfigError("missingLogic", index)>>
    ELSE IF Len(config.forbiddenPatterns) = 1 /\ ~Falsy(config, "logic")
         THEN <<ConfigError("unnecessaryLogic", index)>>
         ELSE <<>>

\* The reports of validateConfig(config, index); index is the 0-based position.
validateConfig(config, index) ==
    IF Len(config.forbiddenPatterns) > 1 /\ Falsy(config, "logic")
    THEN <<ConfigError("missingLogic", index)>>
    ELSE IF Len(config.forbiddenPatterns) = 1 /\ ~Falsy(config, "logic")
         THEN <<ConfigError("unnecessaryLogic", index)>>
         ELSE <<>>

\* configurations.forEach((config, index) => validateConfig(config, index))
RECURSIVE ForEachValidate(_, _)
ForEachValidate(configs, i) ==
    IF i > Len(configs) THEN <<>>
    ELSE validateConfig(configs[i], i - 1) \o ForEachValidate(configs, i + 1)

\* Program dropping the configurations it reported, so that later visits skip them.
ProgramDropsReported ==
    /\ event' = "Program"
    /\ reports' = ForEachValidate(configurations, 1)
    /\ configurations' = SelectSeq(configurations, LAMBDA c : validateConfig(c, 0) = <<>>)
    /\ messageArguments' = <<>>
    /\ evaluated' = <<>>
    /\ UNCHANGED <<node, prior>>

Program ==
    /\ event' = "Program"
    /\ reports' = ForEachValidate(configurations, 1)
    /\ messageArguments' = <<>>
    /\ evaluated' = <<>>
    /\ UNCHANGED <<configurations, node, prior>>

(***************************************************************************)
(* The call site: logger, level and literal text.                          *)
(***************************************************************************)
Includes(array, x) == x \in Range(array)

IsMember(n) == n.callee.type = "MemberExpression"

isConsoleStatement(n) == IsMember(n) /\ n.callee.object.name = "console"

\* configurations.flatMap((config) => config.customLoggers || [])
RECURSIVE customLoggerNames(_)
customLoggerNames(configs) ==
    IF configs = <<>> THEN <<>>
    ELSE (IF Has(Head(configs), "customLoggers")
          THEN Head(configs).customLoggers ELSE <<>>)
         \o customLoggerNames(Tail(configs))

isCustomLoggerStatement(n, configs) ==
    IsMember(n) /\ Includes(customLoggerNames(configs), n.callee.object.name)

logMethod(n) == n.callee.property.name

\* The filter without the typeof test: every literal passes.
IsAnyLiteral(arg) == arg.type = "Literal" /\ Has(arg, "value")

\* arg.type === "Literal" && typeof arg.value === "string"
IsStringLiteral(arg) ==
    arg.type = "Literal" /\ Has(arg, "value") /\ arg.typeofValue = "string"

\* node.arguments.filter(...).map((arg) => arg.value)
RECURSIVE messageArgsMap(_)
messageArgsMap(arguments) ==
    IF arguments = <<>> THEN <<>>
    ELSE (IF IsStringLiteral(Head(arguments)) THEN <<Head(arguments).value>> ELSE <<>>)
         \o messageArgsMap(Tail(arguments))

\* messageArgsMap.join(" ")
MessageArgumentsOf(n) == Join(messageArgsMap(n.arguments), <<" ">>)

(***************************************************************************)
(* matchesPattern.                                                         *)
(***************************************************************************)
\* parsePattern(pattern).test(string), computed once for each pattern and text.
Tests ==
    [pattern \in {DebugRegex, BugRegex, DebugWord, TraceWord} |->
        [string \in {MessageArgumentsOf(n) : n \in ScopeNodes \cup MatchNodes} |->
            RegExpTest(parsePattern(pattern), string)]]

\* forbiddenPatterns.map(parsePattern).map((regex) => regex.test(string))
matches(string, forbiddenPatterns) ==
    [k \in DOMAIN forbiddenPatterns |-> Tests[forbiddenPatterns[k]][string]]

\* matches.some(Boolean)
RECURSIVE Some(_)
Some(bools) == IF bools = <<>> THEN FALSE ELSE Head(bools) \/ Some(Tail(bools))

\* matches.every(Boolean)
RECURSIVE Every(_)
Every(bools) == IF bools = <<>> THEN TRUE ELSE Head(bools) /\ Every(Tail(bools))

\* matches.filter(Boolean)
RECURSIVE FilterTrue(_)
FilterTrue(bools) ==
    IF bools = <<>> THEN <<>>
    ELSE (IF Head(bools) THEN <<TRUE>> ELSE <<>>) \o FilterTrue(Tail(bools))

\* Combine with XOR as parity: an odd number of true results.
CombineParity(results, config) ==
    IF Has(config, "logic") /\ config.logic = "OR" THEN Some(results)
    ELSE IF Has(config, "logic") /\ config.logic = "AND" THEN Every(results)
    ELSE IF Has(config, "logic") /\ config.logic = "XOR"
         THEN Len(FilterTrue(results)) % 2 = 1
         ELSE FALSE

\* The three returns on logic and the final return false.
Combine(results, config) ==
    IF Has(config, "logic") /\ config.logic = "OR" THEN Some(results)
    ELSE IF Has(config, "logic") /\ config.logic = "AND" THEN Every(results)
    ELSE IF Has(config, "logic") /\ config.logic = "XOR"
         THEN Len(FilterTrue(results)) = 1
         ELSE FALSE

matchesPattern(string, config) ==
    Combine(matches(string, config.forbiddenPatterns), config)

(***************************************************************************)
(* The CallExpression handler.                                             *)
(***************************************************************************)
\* The exclusion read from a property named excludedLevels.
excludedMisnamed(config, n) ==
    Has(config, "excludedLevels") /\ Includes(config.excludedLevels, logMethod(n))

\* if (config.excludeLevels && config.excludeLevels.includes(logMethod)) continue
excluded(config, n) ==
    Has(config, "excludeLevels") /\ Includes(config.excludeLevels, logMethod(n))

appliesToConsole(n, config) ==
    isConsoleStatement(n) /\ ~Has(config, "customLoggers")

appliesToCustomLogger(n, config, configs) ==
    /\ isCustomLoggerStatement(n, configs)
    /\ Has(config, "customLoggers")
    /\ Includes(customLoggerNames(configs), n.callee.object.name)

\* The template string of loggerName, as its pieces.
LoggerName(n, config) ==
    IF appliesToConsole(n, config) THEN <<"console">>
    ELSE LET names == config.customLoggers
         IN  (IF Len(names) > 1 THEN <<"(">> ELSE <<>>)
             \o Join([k \in DOMAIN names |-> <<names[k]>>], <<"|">>)
             \o (IF Len(names) > 1 THEN <<")">> ELSE <<>>)

LogicString(config) ==
    IF ~Has(config, "logic") THEN <<"u", "n", "d", "e", "f", "i", "n", "e", "d">>
    ELSE CASE config.logic = "OR"  -> <<"O", "R">>
           [] config.logic = "AND" -> <<"A", "N", "D">>
           [] config.logic = "XOR" -> <<"X", "O", "R">>

Explanation(config) ==
    Join([k \in DOMAIN config.forbiddenPatterns |->
             IF ~isRegex(config.forbiddenPatterns[k])
             THEN <<"'">> \o config.forbiddenPatterns[k] \o <<"'">>
             ELSE config.forbiddenPatterns[k]],
         <<" ">> \o LogicString(config) \o <<" ">>)

\* for (const index in configurations): the keys are the decimal strings.
ArrayKey(i) == NumberToString(i - 1)

ForbiddenConsole(n, config, i) ==
    [messageId |-> "forbiddenConsole",
     node      |-> n,
     data      |-> [loggerName         |-> LoggerName(n, config),
                    logMethod          |-> logMethod(n),
                    configurationIndex |-> ArrayKey(i),
                    explanation        |-> Explanation(config)]]

\* One call of matchesPattern: its argument, the local matches and the value returned.
Evaluation(i, string, config) ==
    [index   |-> i - 1,
     matches |-> matches(string, config.forbiddenPatterns),
     result  |-> matchesPattern(string, config)]

\* The loop from configuration i on: the reports and the matchesPattern calls made.
RECURSIVE ForIn(_, _, _, _)
ForIn(n, string, configs, i) ==
    IF i > Len(configs) THEN [reports |-> <<>>, evaluated |-> <<>>]
    ELSE LET config == configs[i]
         IN  IF excluded(config, n) THEN ForIn(n, string, configs, i + 1)
             ELSE IF appliesToConsole(n, config) \/ appliesToCustomLogger(n, config, configs)
                  THEN LET call == Evaluation(i, string, config)
                       IN  IF call.result
                           THEN [reports   |-> <<ForbiddenConsole(n, config, i)>>,
                                 evaluated |-> <<call>>]
                           ELSE LET rest == ForIn(n, string, configs, i + 1)
                                IN  [reports   |-> rest.reports,
                                     evaluated |-> <<call>> \o rest.evaluated]
                  ELSE ForIn(n, string, configs, i + 1)

Visit(n, configs) ==
    IF ~isConsoleStatement(n) /\ ~isCustomLoggerStatement(n, configs)
    THEN [reports |-> <<>>, evaluated |-> <<>>, messageArguments |-> <<>>]
    ELSE LET loop == ForIn(n, MessageArgumentsOf(n), configs, 1)
         IN  [reports          |-> loop.reports,
              evaluated        |-> loop.evaluated,
              messageArguments |-> MessageArgumentsOf(n)]

CallExpression(n) ==
    LET visit == Visit(n, configurations)
    IN  /\ event' = "CallExpression"
        /\ node' = n
        /\ reports' = visit.reports
        /\ messageArguments' = visit.messageArguments
        /\ evaluated' = visit.evaluated
        /\ prior' = visit.reports
        /\ UNCHANGED configurations

(***************************************************************************)
(* The specifications.                                                     *)
(***************************************************************************)
Create(configs) ==
    /\ configurations = configs
    /\ event = "create"
    /\ node = NoNode
    /\ reports = <<>>
    /\ messageArguments = <<>>
    /\ evaluated = <<>>
    /\ prior = <<>>

\* Configuration lists that differ in scope, visited on calls on several loggers.
Init == \E configs \in Lists(ScopeConfigs, MaxConfigs) : Create(configs)

Next == Program \/ \E n \in ScopeNodes : CallExpression(n)

Spec == Init /\ [][Next]_vars

\* One configuration of any patterns and logic, visited on console.log calls.
InitMatch == \E configs \in Lists(MatchConfigs, 1) : Create(configs)

NextMatch == Program \/ \E n \in MatchNodes : CallExpression(n)

SpecMatch == InitMatch /\ [][NextMatch]_vars

(***************************************************************************)
(* The claims.  What a claim says is written from the claim's words, over  *)
(* the state the handlers leave.                                           *)
(***************************************************************************)
Visited == event = "CallExpression"

Diagnostics == {r \in Range(reports) : r.messageId = "forbiddenConsole"}

ObjectName == node.callee.object.name

OnConsole == Visited /\ IsMember(node) /\ ObjectName = "console"

OnCustomLogger == Visited /\ IsMember(node) /\ ObjectName # "console"

\* The 1-based position of the configuration a diagnostic names.
Position(r) ==
    CHOOSE i \in DOMAIN configurations : NumberToString(i - 1) = r.data.configurationIndex

Declares(config, key) == key \in DOMAIN config

ExcludesLevel(config) ==
    Declares(config, "excludeLevels") /\ node.callee.property.name \in Range(config.excludeLevels)

StringArguments ==
    SelectSeq(node.arguments,
              LAMBDA arg : arg.type = "Literal" /\ arg.typeofValue = "string")

\* The pattern as a matcher applied to the text of the visited call.
PatternMatches(pattern) == RegExpTest(parsePattern(pattern), messageArguments)

TrueResults(results) == {k \in DOMAIN results : results[k]}

\* The combined result of a configuration on the visited call, as C7 states it.
CombinedResult(config) ==
    LET trues == {k \in DOMAIN config.forbiddenPatterns :
                     PatternMatches(config.forbiddenPatterns[k])}
    IN  /\ Declares(config, "logic")
        /\ \/ config.logic = "OR" /\ trues # {}
           \/ config.logic = "AND" /\ trues = DOMAIN config.forbiddenPatterns
           \/ config.logic = "XOR" /\ Cardinality(trues) = 1

\* C1: a configuration with exactly one pattern and no logic, no customLoggers and
\* no exclusion of the level reports a forbiddenConsole diagnostic for a console
\* call whose text matches the pattern, unless a lower-indexed configuration
\* matched first.
C1_SinglePatternReports ==
    OnConsole =>
        \A i \in DOMAIN configurations :
            LET config == configurations[i]
            IN  ( /\ Len(config.forbiddenPatterns) = 1
                  /\ ~Declares(config, "logic")
                  /\ ~Declares(config, "customLoggers")
                  /\ ~ExcludesLevel(config)
                  /\ PatternMatches(config.forbiddenPatterns[1])
                  /\ \A r \in Diagnostics : Position(r) >= i )
                => \E r \in Diagnostics : Position(r) = i

\* C2: a diagnostic for a call on a custom logger X names a configuration whose own
\* customLoggers list contains X.
C2_OwnCustomLoggers ==
    OnCustomLogger =>
        \A r \in Diagnostics :
            /\ Declares(configurations[Position(r)], "customLoggers")
            /\ ObjectName \in Range(configurations[Position(r)].customLoggers)

\* C3: a diagnostic for a call on console names a configuration that declares no
\* customLoggers, whatever the configuration list.
C3_ConsoleOnlyWithoutCustomLoggers ==
    OnConsole =>
        \A r \in Diagnostics : ~Declares(configurations[Position(r)], "customLoggers")

\* C4: a configuration whose excludeLevels contains the method of the call is never
\* the one reported, and it is only skipped: every console configuration without the
\* exclusion that precedes the reported one (every one, when nothing is reported) is
\* still evaluated on a console call.
C4_ExcludedNeverReported ==
    Visited =>
        /\ \A r \in Diagnostics : ~ExcludesLevel(configurations[Position(r)])
        /\ OnConsole =>
              \A i \in DOMAIN configurations :
                  ( /\ ~ExcludesLevel(configurations[i])
                    /\ ~Declares(configurations[i], "customLoggers")
                    /\ \A r \in Diagnostics : Position(r) >= i )
                  => \E k \in DOMAIN evaluated : evaluated[k].index = i - 1

\* A call on console.error: the first configuration excludes error and would match,
\* the second one does not exclude it and is the one reported.
C4_Witness ==
    /\ OnConsole
    /\ Len(configurations) = 2
    /\ ExcludesLevel(configurations[1])
    /\ ~Declares(configurations[1], "customLoggers")
    /\ CombinedResult(configurations[1])
    /\ ~Declares(configurations[2], "excludeLevels")
    /\ \E r \in Diagnostics : Position(r) = 2

\* A configuration applies to the logger of the visited call: to console when it
\* declares no customLoggers, to a custom logger when its customLoggers contain it.
AppliesToLogger(config) ==
    \/ ObjectName = "console" /\ ~Declares(config, "customLoggers")
    \/ Declares(config, "customLoggers") /\ ObjectName \in Range(config.customLoggers)

Eligible ==
    {i \in DOMAIN configurations :
        /\ ~ExcludesLevel(configurations[i])
        /\ AppliesToLogger(configurations[i])
        /\ CombinedResult(configurations[i])}

\* C5: a visit produces at most one diagnostic; the diagnostic names the smallest
\* index among the configurations that are not level-excluded, apply to the logger of
\* the call and combine to true; no configuration after it is evaluated.
C5_FirstMatchWins ==
    (Visited /\ IsMember(node)) =>
        /\ Len(reports) <= 1
        /\ \A r \in Diagnostics :
              /\ Position(r) \in Eligible
              /\ \A i \in Eligible : Position(r) <= i
              /\ \A k \in DOMAIN evaluated : evaluated[k].index <= Position(r) - 1

\* What the validator is to emit for the configuration at position i.
ConfigErrorOf(i) ==
    LET config == configurations[i]
    IN  IF Len(config.forbiddenPatterns) > 1 /\ ~Declares(config, "logic")
        THEN "missingLogic"
        ELSE IF Len(config.forbiddenPatterns) = 1 /\ Declares(config, "logic")
             THEN "unnecessaryLogic"
             ELSE "none"

Flagged == {i \in DOMAIN configurations : ConfigErrorOf(i) # "none"}

\* C6: a Program event reports, in the order of the configurations, missingLogic for
\* each configuration with more than one pattern and no logic, unnecessaryLogic for
\* each with exactly one pattern and a logic, and nothing for any other: one report
\* for each flagged configuration and no other report.
C6_ValidatorReports ==
    event = "Program" =>
        /\ Len(reports) = Cardinality(Flagged)
        /\ \A k \in DOMAIN reports :
              \E i \in Flagged :
                  /\ Cardinality({j \in Flagged : j <= i}) = k
                  /\ reports[k].messageId = ConfigErrorOf(i)
                  /\ reports[k].loc.column = i

\* A valid configuration of one pattern followed by one of two patterns and no logic:
\* the only report is the missingLogic of the second.
C6_Witness ==
    /\ event = "Program"
    /\ Len(configurations) = 2
    /\ Len(configurations[1].forbiddenPatterns) = 1
    /\ ~Declares(configurations[1], "logic")
    /\ Len(configurations[2].forbiddenPatterns) = 2
    /\ ~Declares(configurations[2], "logic")
    /\ Len(reports) = 1
    /\ reports[1].messageId = "missingLogic"
    /\ reports[1].loc.column = 2

RECURSIVE Offset(_)
Offset(k) == IF k = 1 THEN 0 ELSE Offset(k - 1) + Len(StringArguments[k - 1].value) + 1

\* C8: the text matched for a call holds the values of its string-literal arguments
\* in argument order, a single space between neighbours, and nothing else; it is
\* empty when no argument is a string literal.
C8_LiteralText ==
    OnConsole =>
        LET count == Len(StringArguments)
        IN  /\ count = 0 => messageArguments = <<>>
            /\ count > 0 =>
                  /\ Len(messageArguments)
                        = Offset(count) + Len(StringArguments[count].value)
                  /\ \A k \in 1..count :
                        /\ SubSeq(messageArguments, Offset(k) + 1,
                                  Offset(k) + Len(StringArguments[k].value))
                              = StringArguments[k].value
                        /\ k > 1 => messageArguments[Offset(k)] = " "

\* console.log(variable, "debug"): the text is "debug".
C8_Witness ==
    /\ OnConsole
    /\ Len(node.arguments) = 2
    /\ node.arguments[1].type = "Identifier"
    /\ Len(StringArguments) = 1
    /\ messageArguments = <<"d", "e", "b", "u", "g">>

\* C9: in a diagnostic, loggerName is "console" when the call is on console, and
\* otherwise the customLoggers of the matched configuration joined with "|", in
\* parentheses iff there is more than one; logMethod is the method of the call and
\* configurationIndex the 0-based position of the matched configuration.
C9_DiagnosticData ==
    (Visited /\ IsMember(node)) =>
        \A r \in Diagnostics :
            LET matched == evaluated[Len(evaluated)].index
                names   == configurations[matched + 1].customLoggers
                joined  == [k \in 1..(2 * Len(names) - 1) |->
                               IF k % 2 = 1 THEN names[(k + 1) \div 2] ELSE "|"]
            IN  /\ ObjectName = "console" => r.data.loggerName = <<"console">>
                /\ ObjectName # "console" =>
                      r.data.loggerName =
                          IF Len(names) > 1 THEN <<"(">> \o joined \o <<")">> ELSE joined
                /\ r.data.logMethod = node.callee.property.name
                /\ r.data.configurationIndex = NumberToString(matched)

\* C10: no event changes the configuration list, and visiting the call expression
\* that was visited last reports what that visit reported, whatever events came in
\* between.
C10_VisitsIndependent ==
    [][ /\ configurations' = configurations
        /\ (event' = "CallExpression" /\ node' = node) => reports' = prior ]_vars

\* A Program event that reports a configuration error, after a visit that reported a
\* diagnostic for that same configuration.
C10_Witness ==
    /\ event = "Program"
    /\ reports # <<>>
    /\ prior # <<>>
    /\ \E k \in DOMAIN reports :
          prior[1].data.configurationIndex = NumberToString(reports[k].loc.column - 1)

====
